---- MODULE Spec2Model ----
(***************************************************************************)
(* HR Attrition Dashboard (src/app.py): a Streamlit script that loads a    *)
(* CSV into a DataFrame, reads three sidebar widgets, filters the frame,   *)
(* renders charts and two crosstab tables, and offers the filtered frame   *)
(* as a CSV download.  Streamlit re-executes the whole script, top to      *)
(* bottom, on every widget interaction; each action below is one such      *)
(* execution.                                                              *)
(***************************************************************************)
EXTENDS Integers, Sequences, FiniteSets, TLC

VARIABLES
    df,                    \* line 20: the loaded DataFrame
    status,                \* how the last script execution ended
    selected_departments,  \* line 30/32
    selected_genders,      \* line 36/38
    age_range,             \* line 41
    filtered_df,           \* lines 44-49
    fig1, fig2, fig3, fig4,\* lines 58, 65, 71, 78
    corr,                  \* line 113
    table1, table2,        \* lines 122, 129
    download,              \* line 189: the text handed to st.download_button
    rendered               \* the numbered sections (1..20) that were rendered

vars == <<df, status, selected_departments, selected_genders, age_range,
          filtered_df, fig1, fig2, fig3, fig4, corr, table1, table2,
          download, rendered>>

\* Bounds of the model.
MaxRows == 2
MaxStrLen == 2

(***************************************************************************)
(* Cells.  A cell of a DataFrame is NaN, a string (a sequence of           *)
(* characters) or a number.                                                *)
(***************************************************************************)
NaN == [k |-> "nan", s |-> <<>>, n |-> 0]
Str(s) == [k |-> "str", s |-> s, n |-> 0]
Num(n) == [k |-> "num", s |-> <<>>, n |-> n]

Range(f) == {f[i] : i \in DOMAIN f}

Sales == Str(<<"S", "a", "l", "e", "s">>)
HR == Str(<<"H", "R">>)
IT == Str(<<"I", "T">>)
Male == Str(<<"M", "a", "l", "e">>)
Female == Str(<<"F", "e", "m", "a", "l", "e">>)
Yes == Str(<<"Y", "e", "s">>)
No == Str(<<"N", "o">>)

\* The characters of each column name the script mentions.
ColumnChars ==
    [Age |-> <<"A", "g", "e">>,
     Attrition |-> <<"A", "t", "t", "r", "i", "t", "i", "o", "n">>,
     Department |-> <<"D", "e", "p", "a", "r", "t", "m", "e", "n", "t">>,
     Gender |-> <<"G", "e", "n", "d", "e", "r">>,
     MonthlyIncome |-> <<"M", "o", "n", "t", "h", "l", "y", "I", "n", "c", "o", "m", "e">>]

ColumnNames == DOMAIN ColumnChars

(***************************************************************************)
(* DataFrames: ordered columns, a dtype per column, an index (the row      *)
(* labels) and the rows.                                                   *)
(***************************************************************************)
\* pandas' dtype inference for one parsed column.
InferDtype(cells) ==
    IF Len(cells) = 0 THEN "object"
    ELSE IF \E i \in DOMAIN cells : cells[i].k = "str" THEN "object"
    ELSE IF \E i \in DOMAIN cells : cells[i].k = "nan" THEN "float64"
    ELSE "int64"

\* A frame as read_csv builds it from parsed rows: dtypes inferred, RangeIndex.
Frame(columns, rows) ==
    [columns |-> columns,
     dtypes |-> [c \in Range(columns) |->
                    InferDtype([i \in 1..Len(rows) |-> rows[i][c]])],
     index |-> [i \in 1..Len(rows) |-> i - 1],
     data |-> rows]

NoFrame == Frame(<<>>, <<>>)

HasColumn(d, c) == c \in Range(d.columns)

\* d[c]: the column as a sequence of cells.
Column(d, c) == [i \in 1..Len(d.data) |-> d.data[i][c]]

\* Series.dropna().unique(), as a set.
DropNaUnique(col) == Range(col) \ {NaN}

\* A slip: the kept rows come out last first.
BoolIndexReversed(d, mask) ==
    LET pos == SelectSeq([i \in 1..Len(d.data) |-> i], LAMBDA i : mask[i])
        n == Len(pos)
    IN  [d EXCEPT !.index = [j \in 1..n |-> d.index[pos[n + 1 - j]]],
                  !.data = [j \in 1..n |-> d.data[pos[n + 1 - j]]]]

\* d[mask]: boolean indexing keeps the rows whose mask is TRUE, in order,
\* with their index labels.
BoolIndex(d, mask) ==
    LET pos == SelectSeq([i \in 1..Len(d.data) |-> i], LAMBDA i : mask[i])
    IN  [d EXCEPT !.index = [j \in 1..Len(pos) |-> d.index[pos[j]]],
                  !.data = [j \in 1..Len(pos) |-> d.data[pos[j]]]]

\* Series.isin(values): NaN is in no list of non-NaN values.
IsIn(col, values) == [i \in DOMAIN col |-> col[i] \in values]

\* A slip: the upper end compared with < instead of <=.
BetweenMaskOpenEnd(col, lo, hi) ==
    [i \in DOMAIN col |-> col[i].k = "num" /\ col[i].n >= lo /\ col[i].n < hi]

\* (col >= lo) & (col <= hi): comparisons with NaN are False.
BetweenMask(col, lo, hi) ==
    [i \in DOMAIN col |-> col[i].k = "num" /\ col[i].n >= lo /\ col[i].n <= hi]

(***************************************************************************)
(* Sidebar (lines 26-41).  A widget returns what the user last chose, or   *)
(* its default when the user has not touched it.                           *)
(***************************************************************************)
Unset == [set |-> FALSE, value |-> {}]
Chosen(S) == [set |-> TRUE, value |-> S]
UnsetRange == [set |-> FALSE, value |-> <<0, 0>>]
ChosenRange(r) == [set |-> TRUE, value |-> r]
NoRange == <<0, 0>>

\* st.sidebar.multiselect(label, options, default=options)
Multiselect(options, user) == IF user.set THEN user.value ELSE options

\* st.sidebar.slider(label, lo, hi, (lo, hi))
Slider(lo, hi, user) == IF user.set THEN user.value ELSE <<lo, hi>>

\* lines 28-32 and 34-38: the selection for a categorical column, [] when
\* the column is absent.
SelectedFor(d, c, user) ==
    IF HasColumn(d, c)
    THEN Multiselect(DropNaUnique(Column(d, c)), user)
    ELSE {}

\* The numbers of d['Age'] that min() and max() look at (NaN is skipped).
AgeNumbers(d) == {x.n : x \in {y \in Range(Column(d, "Age")) : y.k = "num"}}

SetMin(S) == CHOOSE m \in S : \A x \in S : m <= x
SetMax(S) == CHOOSE m \in S : \A x \in S : m >= x

\* line 40: None when the line completes, else the exception it raises:
\* df['Age'] on a frame without the column, or int(nan) when the column
\* holds no number.
Line40Raises(d) ==
    IF ~HasColumn(d, "Age") THEN "KeyError:40"
    ELSE IF AgeNumbers(d) = {} THEN "ValueError:40"
    ELSE "None"

(***************************************************************************)
(* Apply Filters (lines 43-49).                                            *)
(***************************************************************************)
\* A slip: the membership test applied whatever the selection, so that an
\* empty selection (also the one of an absent column) keeps no row.
DepartmentFilterAlways(d, selected) ==
    BoolIndex(d, [i \in 1..Len(d.data) |->
                    HasColumn(d, "Department") /\ d.data[i]["Department"] \in selected])

\* lines 45-46
DepartmentFilter(d, selected) ==
    IF selected # {}
    THEN BoolIndex(d, IsIn(Column(d, "Department"), selected))
    ELSE d

\* lines 47-48
GenderFilter(d, selected) ==
    IF selected # {}
    THEN BoolIndex(d, IsIn(Column(d, "Gender"), selected))
    ELSE d

\* line 49
AgeFilter(d, r) == BoolIndex(d, BetweenMask(Column(d, "Age"), r[1], r[2]))

\* line 44: df.copy()
Copy(d) == d

\* lines 44-49
ApplyFilters(d, sd, sg, r) ==
    AgeFilter(GenderFilter(DepartmentFilter(Copy(d), sd), sg), r)

(***************************************************************************)
(* Charts and tables (lines 55-184).                                       *)
(***************************************************************************)
RECURSIVE Gcd(_, _)
Gcd(a, b) == IF b = 0 THEN a ELSE Gcd(b, a % b)

\* a / b as a fraction in lowest terms (b > 0, a >= 0).
Ratio(a, b) == LET g == Gcd(a, b) IN [num |-> a \div g, den |-> b \div g]

RECURSIVE SumOver(_, _)
SumOver(f, S) ==
    IF S = {} THEN 0
    ELSE LET x == CHOOSE y \in S : TRUE IN f[x] + SumOver(f, S \ {x})

\* The plotly calls name 'Attrition' (names= or color=): they raise
\* ValueError when the frame has no such column.
PlotlyRaises(d) == ~HasColumn(d, "Attrition")

\* line 58: px.pie(d, names=...) draws one slice per value, sized by its
\* number of rows.
Pie(d, names) ==
    LET col == Column(d, names)
    IN  [v \in DropNaUnique(col) |-> Cardinality({i \in DOMAIN col : col[i] = v})]

\* lines 65, 71, 78: px.histogram(d, x=..., color=...) counts the rows of
\* each (x, color) pair that occurs.
Histogram(d, x, color) ==
    LET rows == {i \in 1..Len(d.data) :
                    d.data[i][x] # NaN /\ d.data[i][color] # NaN}
    IN  [p \in {<<d.data[i][x], d.data[i][color]>> : i \in rows} |->
            Cardinality({i \in rows : <<d.data[i][x], d.data[i][color]>> = p})]

\* pd.crosstab(d[r], d[c]): the counts of each (row value, column value)
\* over the rows where both are present; only values that occur get a row
\* or a column.
Crosstab(d, r, c) ==
    LET rows == {i \in 1..Len(d.data) :
                    d.data[i][r] # NaN /\ d.data[i][c] # NaN}
        cats == {d.data[i][r] : i \in rows}
        vals == {d.data[i][c] : i \in rows}
    IN  [a \in cats |-> [v \in vals |->
            Cardinality({i \in rows : d.data[i][r] = a /\ d.data[i][c] = v})]]

\* A slip: normalize='all', every count divided by the sum of the table.
NormalizeAll(t) ==
    [a \in DOMAIN t |-> [v \in DOMAIN t[a] |->
        [count |-> t[a][v],
         total |-> SumOver([b \in DOMAIN t |-> SumOver(t[b], DOMAIN t[b])], DOMAIN t)]]]

\* normalize='index': every count divided by the sum of its row.
NormalizeIndex(t) ==
    [a \in DOMAIN t |-> [v \in DOMAIN t[a] |->
        [count |-> t[a][v], total |-> SumOver(t[a], DOMAIN t[a])]]]

\* lines 122 and 129: pd.crosstab(..., normalize='index') * 100
RateTable(d, r) ==
    LET t == NormalizeIndex(Crosstab(d, r, "Attrition"))
    IN  [a \in DOMAIN t |-> [v \in DOMAIN t[a] |->
            Ratio(100 * t[a][v].count, t[a][v].total)]]

\* line 111: select_dtypes(include='number').columns, in column order
NumericCols(d) ==
    SelectSeq(d.columns, LAMBDA c : d.dtypes[c] \in {"int64", "float64"})

\* One entry of DataFrame.corr(): Pearson's r over the rows where both
\* columns hold a number, kept as the sums it is computed from
\* (r = cov / sqrt(vx * vy)); NaN with fewer than two such rows or when a
\* column does not vary.
Pearson(d, a, b) ==
    LET rows == {i \in 1..Len(d.data) :
                    d.data[i][a].k = "num" /\ d.data[i][b].k = "num"}
        n == Cardinality(rows)
        x == [i \in rows |-> d.data[i][a].n]
        y == [i \in rows |-> d.data[i][b].n]
        sx == SumOver(x, rows)
        sy == SumOver(y, rows)
        sxy == SumOver([i \in rows |-> x[i] * y[i]], rows)
        sxx == SumOver([i \in rows |-> x[i] * x[i]], rows)
        syy == SumOver([i \in rows |-> y[i] * y[i]], rows)
        cov == n * sxy - sx * sy
        vx == n * sxx - sx * sx
        vy == n * syy - sy * sy
    IN  IF n < 2 \/ vx = 0 \/ vy = 0
        THEN [nan |-> TRUE, cov |-> 0, vx |-> 0, vy |-> 0]
        ELSE [nan |-> FALSE, cov |-> cov, vx |-> vx, vy |-> vy]

NoCorr == [drawn |-> FALSE, matrix |-> <<>>]

\* lines 111-116: the heatmap is drawn only for two or more numeric columns.
Heatmap(d) ==
    LET cols == NumericCols(d)
    IN  IF Len(cols) > 1
        THEN [drawn |-> TRUE,
              matrix |-> [p \in Range(cols) \X Range(cols) |->
                             Pearson(d, p[1], p[2])]]
        ELSE NoCorr

\* The columns each numbered section asks for in its `if ... in
\* filtered_df.columns` guard (lines 62-175); sections without a guard
\* need none to be rendered.
SectionNeeds ==
    <<{}, {"Department"}, {}, {"Gender"}, {"Education"}, {"YearsAtCompany"},
      {"MonthlyIncome"}, {}, {}, {"Department"}, {"Gender"},
      {"Education", "MonthlyIncome"}, {"YearsAtCompany", "MonthlyIncome"},
      {"MaritalStatus"}, {"JobRole"}, {"YearsSinceLastPromotion"},
      {"YearsWithCurrManager"}, {"Age", "MonthlyIncome"}, {}, {}>>

Sections(d) ==
    {n \in DOMAIN SectionNeeds : SectionNeeds[n] \subseteq Range(d.columns)}

(***************************************************************************)
(* CSV text: filtered_df.to_csv(index=False) (line 189) and pd.read_csv    *)
(* (line 18).  Text is a sequence of characters.                           *)
(***************************************************************************)
Comma == ","
Quote == "\""
Newline == "\n"

DigitChars == <<"0", "1", "2", "3", "4", "5", "6", "7", "8", "9">>

RECURSIVE Digits(_)
Digits(n) ==
    IF n < 10 THEN <<DigitChars[n + 1]>>
    ELSE Digits(n \div 10) \o <<DigitChars[(n % 10) + 1]>>

\* A number is written in decimal; a float64 column writes 30 as 30.0.
FormatNumber(n, dtype) ==
    IF dtype = "float64" THEN Digits(n) \o <<".", "0">> ELSE Digits(n)

\* A slip: quotes inside a quoted field left single.
SingleQuotes(s) == s

RECURSIVE DoubleQuotes(_)
DoubleQuotes(s) ==
    IF s = <<>> THEN <<>>
    ELSE (IF Head(s) = Quote THEN <<Quote, Quote>> ELSE <<Head(s)>>)
         \o DoubleQuotes(Tail(s))

\* csv.QUOTE_MINIMAL: a field holding the delimiter, the quote character or
\* a line break is quoted, its quotes doubled.
QuoteMinimal(s) ==
    IF \E i \in DOMAIN s : s[i] \in {Comma, Quote, Newline, "\r"}
    THEN <<Quote>> \o DoubleQuotes(s) \o <<Quote>>
    ELSE s

\* NaN is written as the empty field (na_rep='').
FormatCell(cell, dtype) ==
    IF cell.k = "nan" THEN <<>>
    ELSE IF cell.k = "num" THEN QuoteMinimal(FormatNumber(cell.n, dtype))
    ELSE QuoteMinimal(cell.s)

RECURSIVE Join(_)
Join(fields) ==
    IF Len(fields) = 0 THEN <<>>
    ELSE IF Len(fields) = 1 THEN fields[1]
    ELSE fields[1] \o <<Comma>> \o Join(Tail(fields))

\* One record; a record of a single empty field is written as "".
WriteRow(fields) ==
    (IF Len(fields) = 1 /\ fields[1] = <<>> THEN <<Quote, Quote>> ELSE Join(fields))
    \o <<Newline>>

RECURSIVE Concat(_)
Concat(seqs) == IF seqs = <<>> THEN <<>> ELSE Head(seqs) \o Concat(Tail(seqs))

\* DataFrame.to_csv(index=False): the header, then one record per row.
ToCsv(d) ==
    WriteRow([j \in 1..Len(d.columns) |-> QuoteMinimal(ColumnChars[d.columns[j]])])
    \o Concat([i \in 1..Len(d.data) |->
          WriteRow([j \in 1..Len(d.columns) |->
              FormatCell(d.data[i][d.columns[j]], d.dtypes[d.columns[j]])])])

\* The tokenizer of read_csv, one character at a time.  mode is where the
\* reader stands: at the start of a field, inside an unquoted field, inside
\* a quoted field, or just after a quote met inside a quoted field.  Blank
\* lines are skipped.
TokenStep(st, c) ==
    LET endField == [mode |-> "start", field |-> <<>>,
                     row |-> Append(st.row, st.field), rows |-> st.rows]
        endRow == [mode |-> "start", field |-> <<>>, row |-> <<>>,
                   rows |-> Append(st.rows, Append(st.row, st.field))]
        take(m) == [st EXCEPT !.mode = m, !.field = Append(st.field, c)]
    IN  IF st.mode = "start" THEN
            IF c = Quote THEN [st EXCEPT !.mode = "quoted"]
            ELSE IF c = Comma THEN endField
            ELSE IF c = Newline THEN (IF st.row = <<>> THEN st ELSE endRow)
            ELSE take("plain")
        ELSE IF st.mode = "plain" THEN
            IF c = Comma THEN endField
            ELSE IF c = Newline THEN endRow
            ELSE take("plain")
        ELSE IF st.mode = "quoted" THEN
            IF c = Quote THEN [st EXCEPT !.mode = "endquote"]
            ELSE take("quoted")
        ELSE
            IF c = Quote THEN take("quoted")
            ELSE IF c = Comma THEN endField
            ELSE IF c = Newline THEN endRow
            ELSE take("plain")

\* The reader's state after the characters lo..hi of the text, read left
\* to right from state st.
RECURSIVE TokenFold(_, _, _, _)
TokenFold(text, lo, hi, st) ==
    IF lo > hi THEN st
    ELSE IF lo = hi THEN TokenStep(st, text[lo])
    ELSE LET mid == (lo + hi) \div 2
         IN  CHOOSE r \in {TokenFold(text, mid + 1, hi, l) :
                              l \in {TokenFold(text, lo, mid, st)}} : TRUE

\* The records of the text, each a sequence of fields.
Tokenize(text) ==
    LET end == CHOOSE r \in {TokenFold(text, 1, Len(text),
                   [mode |-> "start", field |-> <<>>, row |-> <<>>, rows |-> <<>>])} : TRUE
    IN  IF end.mode = "start" /\ end.row = <<>> THEN end.rows
        ELSE Append(end.rows, Append(end.row, end.field))

IsDigits(s) == Len(s) > 0 /\ \A i \in DOMAIN s : s[i] \in Range(DigitChars)

IsFloatText(s) ==
    /\ Len(s) > 2
    /\ s[Len(s) - 1] = "." /\ s[Len(s)] = "0"
    /\ IsDigits(SubSeq(s, 1, Len(s) - 2))

RECURSIVE ParseDigits(_)
ParseDigits(s) ==
    IF s = <<>> THEN 0
    ELSE 10 * ParseDigits(SubSeq(s, 1, Len(s) - 1))
         + (CHOOSE k \in 0..9 : DigitChars[k + 1] = s[Len(s)])

ParseNumber(s) ==
    IF IsFloatText(s) THEN ParseDigits(SubSeq(s, 1, Len(s) - 2)) ELSE ParseDigits(s)

\* The dtype read_csv gives a column of fields: numbers when every
\* non-empty field is one (float64 when a field is empty or has a decimal
\* point), else strings.
ParsedDtype(fields) ==
    IF Len(fields) = 0 THEN "object"
    ELSE IF \E i \in DOMAIN fields :
               fields[i] # <<>> /\ ~IsDigits(fields[i]) /\ ~IsFloatText(fields[i])
         THEN "object"
    ELSE IF \E i \in DOMAIN fields : ~IsDigits(fields[i]) THEN "float64"
    ELSE "int64"

\* The empty field is NaN; other fields follow the column's dtype.
ParseCell(s, dtype) ==
    IF s = <<>> THEN NaN
    ELSE IF dtype = "object" THEN Str(s)
    ELSE Num(ParseNumber(s))

ColumnNamed(chars) == CHOOSE c \in ColumnNames : ColumnChars[c] = chars

\* pd.read_csv(buffer): the first record names the columns.
ReadCsv(text) ==
    LET recs == Tokenize(text)
        columns == [j \in 1..Len(recs[1]) |-> ColumnNamed(recs[1][j])]
        body == Tail(recs)
        \* a record with fewer fields than the header is filled with NaN
        fieldAt(i, j) == IF j <= Len(body[i]) THEN body[i][j] ELSE <<>>
        fieldsOf(j) == [i \in 1..Len(body) |-> fieldAt(i, j)]
        dtypes == [c \in Range(columns) |->
                     ParsedDtype(fieldsOf(CHOOSE j \in 1..Len(columns) : columns[j] = c))]
    IN  [columns |-> columns,
         dtypes |-> dtypes,
         index |-> [i \in 1..Len(body) |-> i - 1],
         data |-> [i \in 1..Len(body) |->
                     [c \in Range(columns) |->
                        ParseCell(fieldAt(i, CHOOSE j \in 1..Len(columns) : columns[j] = c),
                                  dtypes[c])]]]

(***************************************************************************)
(* One execution of the script (lines 20-191) on frame d, given what the   *)
(* user has chosen in each widget.  An exception ends the execution: what  *)
(* the script had not assigned yet stays empty.                            *)
(***************************************************************************)
Script(d, ud, ug, ua) ==
    LET sd == SelectedFor(d, "Department", ud)
        sg == SelectedFor(d, "Gender", ug)
        halted == [status |-> Line40Raises(d),
                   selected_departments |-> sd, selected_genders |-> sg,
                   age_range |-> NoRange, filtered_df |-> NoFrame,
                   fig1 |-> <<>>, fig2 |-> <<>>, fig3 |-> <<>>, fig4 |-> <<>>,
                   corr |-> NoCorr, table1 |-> <<>>, table2 |-> <<>>,
                   download |-> <<>>, rendered |-> {}]
    IN  IF Line40Raises(d) # "None" THEN halted
        ELSE
          LET r == Slider(SetMin(AgeNumbers(d)), SetMax(AgeNumbers(d)), ua)
              f == ApplyFilters(d, sd, sg, r)
          IN  IF PlotlyRaises(f)
              THEN [halted EXCEPT !.status = "ValueError:58",
                                  !.age_range = r, !.filtered_df = f]
              ELSE [status |-> "ok",
                    selected_departments |-> sd, selected_genders |-> sg,
                    age_range |-> r, filtered_df |-> f,
                    fig1 |-> Pie(f, "Attrition"),
                    fig2 |-> IF HasColumn(f, "Department")
                             THEN Histogram(f, "Department", "Attrition") ELSE <<>>,
                    fig3 |-> Histogram(f, "Age", "Attrition"),
                    fig4 |-> IF HasColumn(f, "Gender")
                             THEN Histogram(f, "Gender", "Attrition") ELSE <<>>,
                    corr |-> Heatmap(f),
                    table1 |-> IF HasColumn(f, "Department")
                               THEN RateTable(f, "Department") ELSE <<>>,
                    table2 |-> IF HasColumn(f, "Gender")
                               THEN RateTable(f, "Gender") ELSE <<>>,
                    download |-> ToCsv(f),
                    rendered |-> Sections(f)]

(***************************************************************************)
(* The file EA.csv (line 18).  The repository does not hold it: the frame  *)
(* is any of a bounded family of frames, with any of the optional columns  *)
(* absent.                                                                 *)
(***************************************************************************)
Row(dep, gen, age, att, inc) ==
    [Department |-> dep, Gender |-> gen, Age |-> age, Attrition |-> att,
     MonthlyIncome |-> inc]

RowPool ==
    {Row(Sales, Male, Num(30), Yes, Num(1)),
     Row(Sales, Female, Num(32), No, Num(2)),
     Row(HR, Male, Num(32), Yes, Num(3)),
     Row(HR, Female, Num(30), No, Num(1)),
     Row(NaN, Male, Num(31), No, Num(2)),
     Row(Sales, Female, NaN, Yes, Num(3))}

ColumnChoices ==
    {<<"Age", "Attrition", "Department", "Gender", "MonthlyIncome">>,
     <<"Department", "Gender", "Age", "Attrition">>,
     <<"Age", "Attrition", "Gender", "MonthlyIncome">>,
     <<"Age", "Attrition", "Department">>,
     <<"Attrition", "Department", "Gender", "MonthlyIncome">>,
     <<"Age", "Department", "Gender">>}

SeqsUpTo(S, n) == UNION {[1..k -> S] : k \in 0..n}

Project(rows, columns) ==
    [i \in 1..Len(rows) |-> [c \in Range(columns) |-> rows[i][c]]]

\* The frames of the two worked examples: ages [25,30,30,40], and
\* departments [Sales,Sales,HR,HR,IT] with attrition [Yes,No,Yes,No,No].
AgeScenario ==
    Frame(<<"Age", "Attrition">>,
          Project(<<Row(NaN, NaN, Num(25), Yes, NaN), Row(NaN, NaN, Num(30), No, NaN),
                    Row(NaN, NaN, Num(30), Yes, NaN), Row(NaN, NaN, Num(40), No, NaN)>>,
                  <<"Age", "Attrition">>))

DepartmentScenario ==
    Frame(<<"Department", "Attrition", "Age">>,
          Project(<<Row(Sales, NaN, Num(30), Yes, NaN), Row(Sales, NaN, Num(30), No, NaN),
                    Row(HR, NaN, Num(30), Yes, NaN), Row(HR, NaN, Num(30), No, NaN),
                    Row(IT, NaN, Num(30), No, NaN)>>,
                  <<"Department", "Attrition", "Age">>))

Datasets ==
    {Frame(cols, Project(rows, cols)) :
        cols \in ColumnChoices, rows \in SeqsUpTo(RowPool, MaxRows)}
    \cup {AgeScenario, DepartmentScenario}

(***************************************************************************)
(* State machine.                                                          *)
(***************************************************************************)
\* load_data() (lines 16-20) has returned; the script body has not run yet.
InitWith(frames) ==
    /\ df \in frames
    /\ status = "not_run"
    /\ selected_departments = {}
    /\ selected_genders = {}
    /\ age_range = NoRange
    /\ filtered_df = NoFrame
    /\ fig1 = <<>> /\ fig2 = <<>> /\ fig3 = <<>> /\ fig4 = <<>>
    /\ corr = NoCorr
    /\ table1 = <<>> /\ table2 = <<>>
    /\ download = <<>>
    /\ rendered = {}

Init == InitWith(Datasets)

\* A slip: the execution filters what the last execution left in
\* filtered_df instead of a copy of df.
ExecuteOnLastView(ud, ug, ua) ==
    \E out \in {Script(IF status = "ok" THEN filtered_df ELSE df, ud, ug, ua)} :
        /\ status' = out.status
        /\ selected_departments' = out.selected_departments
        /\ selected_genders' = out.selected_genders
        /\ age_range' = out.age_range
        /\ filtered_df' = out.filtered_df
        /\ fig1' = out.fig1 /\ fig2' = out.fig2
        /\ fig3' = out.fig3 /\ fig4' = out.fig4
        /\ corr' = out.corr
        /\ table1' = out.table1 /\ table2' = out.table2
        /\ download' = out.download
        /\ rendered' = out.rendered
        /\ UNCHANGED df

\* Streamlit executes the script from the top; df comes from the cache.
Execute(ud, ug, ua) ==
    \E out \in {Script(df, ud, ug, ua)} :
        /\ status' = out.status
        /\ selected_departments' = out.selected_departments
        /\ selected_genders' = out.selected_genders
        /\ age_range' = out.age_range
        /\ filtered_df' = out.filtered_df
        /\ fig1' = out.fig1 /\ fig2' = out.fig2
        /\ fig3' = out.fig3 /\ fig4' = out.fig4
        /\ corr' = out.corr
        /\ table1' = out.table1 /\ table2' = out.table2
        /\ download' = out.download
        /\ rendered' = out.rendered
        /\ UNCHANGED df

\* A widget drawn by the last execution keeps its value across executions.
SliderDrawn == status \in {"ok", "ValueError:58"}
HeldRange == IF SliderDrawn THEN ChosenRange(age_range) ELSE UnsetRange

\* The first execution: every widget at its default.
FirstRun ==
    /\ status = "not_run"
    /\ Execute(Unset, Unset, UnsetRange)

\* The user changes the Department multiselect (line 30).
ChangeDepartments ==
    /\ status # "not_run"
    /\ HasColumn(df, "Department")
    /\ \E S \in SUBSET DropNaUnique(Column(df, "Department")) :
          /\ S # selected_departments
          /\ Execute(Chosen(S), Chosen(selected_genders), HeldRange)

\* The user changes the Gender multiselect (line 36).
ChangeGenders ==
    /\ status # "not_run"
    /\ HasColumn(df, "Gender")
    /\ \E S \in SUBSET DropNaUnique(Column(df, "Gender")) :
          /\ S # selected_genders
          /\ Execute(Chosen(selected_departments), Chosen(S), HeldRange)

\* The user moves the Age Range slider (line 41).
MoveAgeSlider ==
    /\ SliderDrawn
    /\ \E lo, hi \in SetMin(AgeNumbers(df))..SetMax(AgeNumbers(df)) :
          /\ lo <= hi
          /\ <<lo, hi>> # age_range
          /\ Execute(Chosen(selected_departments), Chosen(selected_genders),
                     ChosenRange(<<lo, hi>>))

\* The user reruns the app with the widgets as they are.
Rerun ==
    /\ status # "not_run"
    /\ Execute(Chosen(selected_departments), Chosen(selected_genders), HeldRange)

Next == FirstRun \/ ChangeDepartments \/ ChangeGenders \/ MoveAgeSlider \/ Rerun

Spec == Init /\ [][Next]_vars

(***************************************************************************)
(* A second family of frames, for the export: Department and Gender values *)
(* are built from a letter, the delimiter, the quote character and the     *)
(* line break.                                                             *)
(***************************************************************************)
Alphabet == {"a", Comma, Quote, Newline}

Strings == UNION {[1..k -> Alphabet] : k \in 1..MaxStrLen}

CsvDatasets ==
    {Frame(<<"Department", "Gender", "Age", "Attrition">>,
           Project(<<Row(Str(s), Str(<<c>>), Num(30), Yes, NaN),
                     Row(Sales, Male, Num(31), No, NaN)>>,
                   <<"Department", "Gender", "Age", "Attrition">>)) :
        s \in Strings, c \in Alphabet}

InitCsv == InitWith(CsvDatasets)

SpecCsv == InitCsv /\ [][Next]_vars

(***************************************************************************)
(* Properties.                                                             *)
(***************************************************************************)
Ok == status = "ok"

\* The rows of df, by position, and the positions the view kept.
Positions == 1..Len(df.data)
KeptPositions == {l + 1 : l \in Range(filtered_df.index)}
OptionsOf(c) == DropNaUnique(Column(df, c))

\* The age predicate: min <= Age <= max.
AgeWithin(row, r) == row.Age.k = "num" /\ r[1] <= row.Age.n /\ row.Age.n <= r[2]

\* The inclusion predicate of a categorical field as the data model states
\* it: it is active when the column is present and has values to choose
\* from, and a row satisfies it when its value is in the inclusion set
\* (so no row satisfies an empty set).
Includes(row, c, selected) ==
    (HasColumn(df, c) /\ OptionsOf(c) # {}) => row[c] \in selected

SatisfiesAll(row) ==
    /\ Includes(row, "Department", selected_departments)
    /\ Includes(row, "Gender", selected_genders)
    /\ AgeWithin(row, age_range)

\* The inclusion predicate as the filter step evaluates it: an empty
\* selection is no predicate at all.
Admits(row, c, selected) == selected = {} \/ row[c] \in selected

\* C1: the filtered view holds exactly the rows of the dataset that satisfy
\* every active predicate (department set, gender set, age range).
C1_FilterSoundAndComplete ==
    Ok => KeptPositions = {i \in Positions : SatisfiesAll(df.data[i])}

\* C2: an inclusion set the user emptied lets no row pass, so the view is
\* empty; the default selection (every value) keeps every row that has a
\* value and passes the other predicates.
C2_EmptySetIsNotUnset ==
    Ok =>
      \A c \in {"Department", "Gender"} :
        LET selected == IF c = "Department" THEN selected_departments
                        ELSE selected_genders
        IN  (HasColumn(df, c) /\ OptionsOf(c) # {}) =>
              /\ selected = {} => Len(filtered_df.data) = 0
              /\ selected = OptionsOf(c) =>
                    \A i \in Positions :
                       (df.data[i][c] # NaN /\ SatisfiesAll(df.data[i]))
                          => i \in KeptPositions

\* C3: no execution ends in an exception because a column other than a key
\* is absent from the dataset.
C3_AbsentColumnNeverRaises ==
    /\ ~HasColumn(df, "Age") => status # "KeyError:40"
    /\ ~HasColumn(df, "Attrition") => status # "ValueError:58"

\* C4: a categorical field absent from the dataset raises nothing and
\* filters nothing: the view is the rows the other predicates admit, and
\* when they admit every row the view has as many rows as the dataset.
C4_AbsentCategoricalSkipped ==
    \A c \in {"Department", "Gender"} :
      LET o == IF c = "Department" THEN "Gender" ELSE "Department"
          so == IF c = "Department" THEN selected_genders ELSE selected_departments
          others(row) == (HasColumn(df, o) => Admits(row, o, so))
                         /\ AgeWithin(row, age_range)
      IN  (~HasColumn(df, c) /\ status # "not_run") =>
            /\ (Line40Raises(df) = "None" /\ HasColumn(df, "Attrition")) => Ok
            /\ Ok => /\ KeptPositions = {i \in Positions : others(df.data[i])}
                     /\ (\A i \in Positions : others(df.data[i]))
                           => Len(filtered_df.data) = Len(df.data)

C4_Witness ==
    /\ Ok
    /\ ~HasColumn(df, "Department")
    /\ Len(df.data) = 2
    /\ Len(filtered_df.data) = 2
    /\ selected_departments = {}

\* C5: the age predicate keeps a row exactly when min <= Age <= max, both
\* ends included; the range [30,30] over ages [25,30,30,40] keeps exactly
\* the two rows of age 30.
C5_AgeRangeInclusive ==
    Ok =>
      /\ \A i \in Positions :
            (/\ HasColumn(df, "Department")
                  => Admits(df.data[i], "Department", selected_departments)
             /\ HasColumn(df, "Gender")
                  => Admits(df.data[i], "Gender", selected_genders))
            => (i \in KeptPositions <=> AgeWithin(df.data[i], age_range))
      /\ (df = AgeScenario /\ age_range = <<30, 30>>) => filtered_df.index = <<1, 2>>

C5_Witness ==
    /\ Ok
    /\ df = AgeScenario
    /\ age_range = <<30, 30>>
    /\ Len(filtered_df.data) = 2

\* What the charts, the tables and the export show for a view without rows.
NothingToShow ==
    /\ DOMAIN fig1 = {} /\ DOMAIN fig2 = {} /\ DOMAIN fig3 = {} /\ DOMAIN fig4 = {}
    /\ DOMAIN table1 = {} /\ DOMAIN table2 = {}
    /\ \A p \in DOMAIN corr.matrix : corr.matrix[p].nan
    /\ download = WriteRow([j \in 1..Len(df.columns) |-> ColumnChars[df.columns[j]]])

\* C6: when the predicates of the filter specification exclude every row,
\* the execution completes, the view is empty, and every aggregation and
\* the export give an empty or undefined result.
C6_AllExcludedGivesEmptyView ==
    (/\ status # "not_run"
     /\ Line40Raises(df) = "None"
     /\ HasColumn(df, "Attrition")
     /\ \A i \in Positions : ~SatisfiesAll(df.data[i]))
    => (Ok /\ Len(filtered_df.data) = 0 /\ NothingToShow)

\* The zero-row view itself is handled: whenever the view is empty the
\* execution has completed and every result is empty or undefined.
EmptyViewHandled ==
    (Ok /\ Len(filtered_df.data) = 0) => NothingToShow

EmptyViewReached ==
    Ok /\ Len(df.data) > 0 /\ Len(filtered_df.data) = 0 /\ corr.drawn

\* The rows of the view, by position, whose field c holds a.
ViewRows(c, a) == {j \in 1..Len(filtered_df.data) : filtered_df.data[j][c] = a}

RECURSIVE FractionSum(_, _)
FractionSum(f, S) ==
    IF S = {} THEN [num |-> 0, den |-> 1]
    ELSE LET x == CHOOSE y \in S : TRUE
             rest == FractionSum(f, S \ {x})
         IN  [num |-> f[x].num * rest.den + rest.num * f[x].den,
              den |-> f[x].den * rest.den]

\* A rate table over field c is row-normalized: it has a row for exactly
\* the categories with a row in the view; each entry is 100 * (rows of the
\* category with that attrition value) / (rows of the category); each row
\* sums to 100.
RowNormalized(table, c) ==
    /\ DOMAIN table = {a \in OptionsOf(c) : ViewRows(c, a) # {}}
    /\ \A a \in DOMAIN table :
          /\ \A v \in DOMAIN table[a] :
                table[a][v].num * Cardinality(ViewRows(c, a))
                   = table[a][v].den * 100
                       * Cardinality(ViewRows(c, a) \cap ViewRows("Attrition", v))
          /\ \A v \in {Yes, No} :
                (ViewRows(c, a) \cap ViewRows("Attrition", v) # {}) => v \in DOMAIN table[a]
          /\ LET s == FractionSum(table[a], DOMAIN table[a])
             IN  s.num = 100 * s.den

Percent(n) == [num |-> n, den |-> 1]

\* C7: the attrition-rate tables by Department and by Gender are
\* row-normalized, a category without rows in the view has no row in the
\* table, and Department [Sales,Sales,HR,HR,IT] with Attrition
\* [Yes,No,Yes,No,No] gives Sales 50/50, HR 50/50, IT 0/100.
C7_RateTableRowNormalized ==
    Ok =>
      /\ HasColumn(df, "Department") => RowNormalized(table1, "Department")
      /\ HasColumn(df, "Gender") => RowNormalized(table2, "Gender")
      /\ (df = DepartmentScenario /\ Len(filtered_df.data) = Len(df.data)) =>
            table1 = (Sales :> (Yes :> Percent(50) @@ No :> Percent(50)))
                  @@ (HR :> (Yes :> Percent(50) @@ No :> Percent(50)))
                  @@ (IT :> (Yes :> Percent(0) @@ No :> Percent(100)))

C7_Witness ==
    /\ Ok
    /\ df = DepartmentScenario
    /\ Len(filtered_df.data) = Len(df.data)
    /\ DOMAIN table1 = {Sales, HR, IT}
    /\ table1[IT][No] = Percent(100)

\* C8: the view is an order-preserving subsequence of the dataset (labels
\* strictly increasing, each row the dataset's row of that label), and
\* applying the same specification to the dataset again gives the same view.
C8_OrderPreservedAndDeterministic ==
    Ok =>
      /\ filtered_df.columns = df.columns
      /\ \A j \in 1..Len(filtered_df.index) :
            /\ filtered_df.index[j] + 1 \in Positions
            /\ filtered_df.data[j] = df.data[filtered_df.index[j] + 1]
            /\ j > 1 => filtered_df.index[j - 1] < filtered_df.index[j]
      /\ Len(filtered_df.data) = Len(filtered_df.index)
      /\ ApplyFilters(df, selected_departments, selected_genders, age_range)
            = filtered_df

C8_Witness ==
    /\ Ok
    /\ df = DepartmentScenario
    /\ selected_departments = {Sales, IT}
    /\ filtered_df.index = <<0, 1, 4>>

\* The rows the filter step admits under a given selection and range.
AdmittedPositions(sd, sg, r) ==
    {i \in Positions :
        /\ HasColumn(df, "Department") => Admits(df.data[i], "Department", sd)
        /\ HasColumn(df, "Gender") => Admits(df.data[i], "Gender", sg)
        /\ AgeWithin(df.data[i], r)}

\* C9: no execution changes the loaded dataset, and the view of each
\* execution is the rows of the full dataset that the current selection
\* admits, whatever the view was before.
C9_ViewRecomputedFromDataset ==
    [][/\ df' = df
       /\ status' = "ok" =>
             KeptPositions' = AdmittedPositions(selected_departments',
                                                selected_genders', age_range')]_vars

C9_Witness ==
    /\ Ok
    /\ HasColumn(df, "Department")
    /\ Cardinality(OptionsOf("Department")) = 2
    /\ Cardinality(selected_departments) = 1
    /\ Len(df.data) = 2
    /\ Len(filtered_df.data) = 1

\* C10: the export is the view as CSV: reading it back gives the view's
\* columns in order and nothing else, one row per view row in order, and
\* every value as it was, also a value holding the delimiter, a quote or a
\* line break.
C10_ExportRoundTrip ==
    Ok =>
      LET back == ReadCsv(download)
      IN  /\ back.columns = filtered_df.columns
          /\ Len(back.data) = Len(filtered_df.data)
          /\ back.data = filtered_df.data

C10_Witness ==
    /\ Ok
    /\ Len(filtered_df.data) = 2
    /\ filtered_df.data[1]["Department"] = Str(<<Quote, Comma>>)
    /\ filtered_df.data[1]["Gender"] = Str(<<Newline>>)

====
